---- MODULE Spec2Model ----
(***************************************************************************)
(* Model of rx7sim: the pooled exhaust particle system                     *)
(* (src/systems/exhaust.js), the drive-state ramp of the frame loop, the   *)
(* perspective volume mixer and the convolution reverb graph               *)
(* (src/script.js, latest snapshot, lines 2192-3500).                      *)
(*                                                                         *)
(* Units.  Time is counted in units of 0.01 s, so add_time 0.02 is 2 and   *)
(* 0.01 is 1.  Gains and the wheel time scale are counted in hundredths,   *)
(* so gain 1.0 is 100 and the per-call step 0.2 is 20.  The three          *)
(* coordinates of a position and the three colour channels are written by  *)
(* the same statements, so one coordinate and the alpha channel stand for  *)
(* them.                                                                   *)
(***************************************************************************)
EXTENDS Integers, Sequences, FiniteSets, TLC

VARIABLES
    \* ---- particle system (exhaust.js)
    emitters,        \* particleSystem.emitters
    pool,            \* particlePool.pool, the free list (record ids)
    active,          \* particlePool.active (record ids)
    particles,       \* the records ever constructed, by id
    smokePositions,  \* position buffer, slot 0..MAX_PARTICLES-1
    smokeColors,     \* colour buffer (alpha channel)
    smokeSizes,      \* size buffer
    psEnabled,       \* particleSystem.enabled
    psVisible,       \* particleSystem.visible
    disposed,        \* particleSystem.dispose() has run
    constructed,     \* history: number of records constructed by acquire
    dropped,         \* history: spawns dropped by the cap in the last update
    spawnedFresh,    \* history: every record the last update spawned left the
                     \*          spawn loop with settings-only field values
    spawnedReused,   \* history: the last update took a record from the free list
    builtLazily,     \* history: the last update constructed records only for
                     \*          spawns the free list could not serve
    burst,           \* history: the last update demanded BurstDemand spawns
    lastSpawned,     \* history: particles the last update spawned
    agedByDelta,     \* history: the last update lowered the lifetime of every
                     \*          particle it kept by its deltaTime
    lastRelease,     \* history: where the record of the last pool operation
                     \*          was, if it was a release: "active", "free",
                     \*          "foreign" (not a record of the pool), else "none"
    \* ---- frame loop, drive state and controls (script.js, controls.js)
    driveState,      \* driveState
    modelsLoaded,    \* initializeModels has built anims.mixerWheels and the solo buttons
    timeScale,       \* anims.mixerWheels.timeScale, in hundredths
    isPageVisible,   \* isPageVisible
    panelCreated,    \* the controls panel exists (built by controlsPanel.update())
    ignitionOn,      \* the ignition toggle of the controls panel
    frameParity,     \* history: parity of the number of frames run
    \* ---- perspective mixer (script.js)
    soloState,       \* soloState
    volume,          \* gain of each audio emitter, in hundredths
    \* ---- one gain stepped toward one target (the ramp of setEmitterVolumes)
    rampGain,        \* the gain
    rampTarget,      \* its target
    rampStart,       \* history: the gain before the first call
    rampCalls,       \* history: calls made so far
    \* ---- convolution reverb (script.js)
    reverbSelection,             \* reverbParams.Reverb
    currentReverbBlend,          \* soundEngine.currentReverbBlend, in hundredths
    currentReverbScalingFactor,  \* soundEngine.currentReverbScalingFactor, in hundredths
    pendingLoads,    \* impulse-response loads in flight
    loadsRequested,  \* loads requested so far; numbers the loads and their nodes
    reverbNodes,     \* emitter._reverbNodes of each emitter
    edges,           \* connections of the audio graph made by the reverb code
    nodeParam,       \* gain.value of the gain nodes, buffer of the convolvers
    lastReverbCall,  \* history: the last of apply / remove that ran
    disconnectThrew, \* history: a disconnect() threw during that call
    lastApplyId,     \* history: the number of the last applyConvolutionReverb
    \* ---- one emitter called with a constant deltaTime (exhaust.js)
    emitDelta,       \* the deltaTime of every call
    emitEmitter,     \* the emitter: enabled, add_time, elapsed
    emitCalls,       \* history: update calls made
    emitSpawns,      \* history: spawns requested over all calls
    emitPrev,        \* history: the emitter as the last call found it
    \* ---- preloading of the sound buffers (script.js, helpers.js)
    audioLoad,       \* outcome of loader.load for each file of soundEngine.load
    buffers,         \* soundEngine.buffers[pos][key]
    audioLoaded,     \* initState.audioLoaded
    errorOverlay,    \* the overlay showErrorUI has put up for the preload
    modelsInit,      \* the promise of initializeModels() and its .then
    initModelsLoaded, \* initState.modelsLoaded
    sceneReady,      \* initState.sceneReady
    sceneReadySets,  \* history: assignments of true to initState.sceneReady
    tickSpinning,    \* tick is inside a ramp loop whose exit test cannot hold
    stopHeld,        \* scenario: the drive state stays stop from here on
    headlightsOn,    \* headlightsOn of the controls panel
    beamsAnimating,  \* beamsAnimating
    beamTurnOn,      \* turnOn of the animateBeams call that is running
    beamIndex,       \* i of its step()
    beams,           \* the three beam indicators: on (yellow) or off (grey)
    headlightClicks, \* history: clicks on the headlights button
    headlightCalls,  \* history: invocations of the headlights callback
                     \*          made at the end of a beam animation
    lastReported,    \* history: the value passed to the last invocation
    \* ---- the particle system at the settings of exhaust.js
    atReference,     \* TRUE: the cap, the lifetimes and the opacity have the
                     \*       values of exhaust.js; FALSE: the small values
    lifePattern,     \* the draws of the lifetime sample, call by call, repeated
    updateCalls      \* history: update calls made at the settings of exhaust.js

psVars == <<emitters, pool, active, particles, smokePositions, smokeColors,
            smokeSizes, psEnabled, psVisible, disposed, constructed, dropped,
            spawnedFresh, spawnedReused, builtLazily, burst,
            agedByDelta, lastRelease, lastSpawned>>

frameVars == <<driveState, modelsLoaded, timeScale, isPageVisible, panelCreated,
               ignitionOn, frameParity, soloState, volume>>

rampVars == <<rampGain, rampTarget, rampStart, rampCalls>>

reverbVars == <<reverbSelection, currentReverbBlend, currentReverbScalingFactor,
                pendingLoads, loadsRequested, reverbNodes, edges, nodeParam,
                lastReverbCall, disconnectThrew, lastApplyId>>

emissionVars == <<emitDelta, emitEmitter, emitCalls, emitSpawns, emitPrev>>

loadVars == <<audioLoad, buffers, audioLoaded, errorOverlay, modelsInit,
             initModelsLoaded, sceneReady, sceneReadySets>>
readyVars == <<modelsInit, initModelsLoaded, sceneReady, sceneReadySets>>

referenceVars == <<atReference, lifePattern, updateCalls>>

stallVars == <<tickSpinning>>

holdVars == <<stopHeld>>

controlsVars == <<headlightsOn, beamsAnimating, beamTurnOn, beamIndex, beams,
                 headlightClicks, headlightCalls, lastReported>>

otherVars == <<stallVars, holdVars, controlsVars>>

vars == <<psVars, frameVars, rampVars, reverbVars, emissionVars, loadVars,
          referenceVars, otherVars>>

----------------------------------------------------------------------------
\* Bounds of the model

\* deltaTime of a frame ranges over 1..MaxDelta time units
MaxDelta == 2

----------------------------------------------------------------------------
\* Program constants, in model units

\* Cap on simultaneously active particles: 1000 in the source; scaled down
\* to 2, so that the cap is reached within a few frames, unless atReference
MAX_PARTICLES == IF atReference THEN 1000 ELSE 2

\* Emitter settings live_time_from, live_time_to (1.0 s and 1.5 s, in time
\* units of 0.01 s), opacity and opacity_decrease (0.6 and 0.008, in
\* thousandths); scaled down so that a particle lives a few frames unless
\* atReference
LiveTimeFrom == IF atReference THEN 100 ELSE 2
LiveTimeTo == IF atReference THEN 150 ELSE 3
Opacity == IF atReference THEN 600 ELSE 3
OpacityDecrease == IF atReference THEN 8 ELSE 1

\* color[3] of a record as acquire() constructs it (1), in the unit of Opacity
FullAlpha == IF atReference THEN 1000 ELSE 5

\* Emitter settings (add_time, speed range, scale, radius_1)
AddTimeCruise == 2
AddTimeAccel == 1
SpeedFromCruise == 3
SpeedToCruise == 6
SpeedFromAccel == 5
SpeedToAccel == 8
ScaleFrom == 1
ScaleIncrease == 1
Radius1 == 2

\* Emitter settings in tenths (rotation, colour endpoints, brightness, blend,
\* texture); color_speed_from = color_speed_to = 1.0 is 1
RotationFrom == 5
RotationTo == 10
ColorFrom == 9
ColorTo == 5
BrightnessFrom == 5
BrightnessTo == 9
ColorSpeedFrom == 1
ColorSpeedTo == 1
Blend == 8
Texture == 5

\* the demand of a burst: ten times the cap, as 10,000 is of 1000
BurstDemand == 10 * MAX_PARTICLES

DriveStates == {"stop", "drive", "accel", "decel"}
DeltaTimes == 1..MaxDelta
\* a call of Math.random() yields the lower (0) or the upper (1) end of its range
RandomUnit == {0, 1}

\* One spawn draws a position sample and a lifetime sample (the speed,
\* rotation, brightness and colour-speed samples are taken at the lower end
\* of their ranges)
Samples == [pos : RandomUnit, live : RandomUnit]

\* Math.random() * (to - from) + from
Lerp(from, to, r) == r * (to - from) + from

----------------------------------------------------------------------------
\* Sequence helpers

Range(s) == {s[i] : i \in 1..Len(s)}

Front(s) == SubSeq(s, 1, Len(s) - 1)

\* Array.prototype.indexOf: first index holding x, 0 when absent (1-based)
IndexOf(s, x) ==
    IF \E i \in 1..Len(s) : s[i] = x
    THEN CHOOSE i \in 1..Len(s) : s[i] = x /\ \A j \in 1..(i - 1) : s[j] # x
    ELSE 0

\* Array.prototype.splice(index, 1)
RemoveAt(s, i) == SubSeq(s, 1, i - 1) \o SubSeq(s, i + 1, Len(s))

----------------------------------------------------------------------------
\* particlePool.  A pool state is [pool, active, particles, constructed].

\* the record literal of acquire()
\* (colour channels in hundredths: 1 is 100)
NewParticle ==
    [offset |-> 0, scale |-> 0, quaternion |-> 0, rotation |-> 0,
     color |-> 100, alpha |-> FullAlpha, blend |-> 0, texture |-> 0, live |-> 0,
     scale_increase |-> 0, opacity_decrease |-> 0,
     color_from |-> 0, color_to |-> 0, color_speed |-> 0, color_pr |-> 0]

PoolState == [pool |-> pool, active |-> active, particles |-> particles,
              constructed |-> constructed]

\* the free list after this.pool.pop()
PopMutantKeep(p) == p
PoolAfterPop(p) == Front(p)

\* acquire() that constructs a record on every call
AcquireAlwaysNew(ps) ==
    [ps EXCEPT !.particles = Append(ps.particles, NewParticle),
               !.constructed = ps.constructed + 1,
               !.active = Append(ps.active, Len(ps.particles) + 1)]

\* acquire(): reuse the last free record or construct one; push it on active
Acquire(ps) ==
    IF Len(ps.pool) > 0
    THEN [ps EXCEPT !.pool = PoolAfterPop(ps.pool),
                    !.active = Append(ps.active, ps.pool[Len(ps.pool)])]
    ELSE [ps EXCEPT !.particles = Append(ps.particles, NewParticle),
                    !.constructed = ps.constructed + 1,
                    !.active = Append(ps.active, Len(ps.particles) + 1)]

\* the record acquire() has just returned
Acquired(ps) == ps.active[Len(ps.active)]

ReleaseKeepsActive(ps, id) == [ps EXCEPT !.pool = Append(ps.pool, id)]

\* release without the index test: splice(-1, 1) removes the last element
ReleaseUnchecked(ps, id) ==
    LET index == IndexOf(ps.active, id) IN
    [ps EXCEPT !.active = IF index > 0 THEN RemoveAt(ps.active, index)
                          ELSE Front(ps.active),
               !.pool = Append(ps.pool, id)]

\* release(particle)
Release(ps, id) ==
    LET index == IndexOf(ps.active, id) IN
    IF index > 0
    THEN [ps EXCEPT !.active = RemoveAt(ps.active, index),
                    !.pool = Append(ps.pool, id)]
    ELSE ps

\* clear(): pop every active record onto the free list
RECURSIVE Clear(_)
Clear(ps) ==
    IF Len(ps.active) > 0
    THEN Clear([ps EXCEPT !.pool = Append(ps.pool, ps.active[Len(ps.active)]),
                          !.active = Front(ps.active)])
    ELSE ps

----------------------------------------------------------------------------
\* particleSystem

\* the exhaust emitter pushed by initialize()
ExhaustEmitter ==
    [enabled |-> FALSE, add_time |-> AddTimeCruise, elapsed |-> 0,
     speed_from |-> SpeedFromCruise, speed_to |-> SpeedToCruise]

\* the head of the forEach body without the values for accel
ConfigureNoBoost(em, engineState) ==
    IF engineState # "stop"
    THEN [em EXCEPT !.enabled = TRUE, !.add_time = AddTimeCruise,
                    !.speed_from = SpeedFromCruise, !.speed_to = SpeedToCruise]
    ELSE [em EXCEPT !.enabled = FALSE]

\* the head of the forEach body without the test for stop
ConfigureAlwaysOn(em, engineState) ==
    [em EXCEPT
       !.enabled = TRUE,
       !.add_time = IF engineState = "accel" THEN AddTimeAccel ELSE AddTimeCruise,
       !.speed_from = IF engineState = "accel" THEN SpeedFromAccel ELSE SpeedFromCruise,
       !.speed_to = IF engineState = "accel" THEN SpeedToAccel ELSE SpeedToCruise]

\* the head of the forEach body with the case stop left out
ConfigureStopIgnored(em, engineState) ==
    IF engineState = "stop" THEN em ELSE ConfigureAlwaysOn(em, engineState)

\* update, the head of the forEach body: the drive state sets the emitter's
\* enabled flag, add_time and speed range
Configure(em, engineState) ==
    IF engineState # "stop"
    THEN [em EXCEPT
            !.enabled = TRUE,
            !.add_time = IF engineState = "accel" THEN AddTimeAccel ELSE AddTimeCruise,
            !.speed_from = IF engineState = "accel" THEN SpeedFromAccel ELSE SpeedFromCruise,
            !.speed_to = IF engineState = "accel" THEN SpeedToAccel ELSE SpeedToCruise]
    ELSE [em EXCEPT !.enabled = FALSE]

\* add = Math.floor(elapsed / add_time), after elapsed += deltaTime
SpawnDemand(em, dt) ==
    IF em.enabled THEN (em.elapsed + dt) \div em.add_time ELSE 0

\* elapsed -= add * add_time: every requested spawn is paid for, spawned or not
IntegrateReset(em, dt) == [em EXCEPT !.elapsed = 0]
IntegrateNoSubtract(em, dt) == [em EXCEPT !.elapsed = em.elapsed + dt]
Integrate(em, dt) ==
    IF em.enabled
    THEN [em EXCEPT !.elapsed = (em.elapsed + dt) - SpawnDemand(em, dt) * em.add_time]
    ELSE em

\* the guard of the spawn loop: getActiveCount() >= MAX_PARTICLES breaks
CapIgnored(n) == FALSE
CapReached(n) == n >= MAX_PARTICLES

\* brightness, drawn once per spawn
Brightness == Lerp(BrightnessFrom, BrightnessTo, 0)

InitParticleKeepsProgress(ps, em, s) ==
    [ps EXCEPT !.particles[Acquired(ps)] =
        [@ EXCEPT
           !.offset           = Lerp(0, Radius1, s.pos),
           !.scale            = ScaleFrom,
           !.quaternion       = Lerp(em.speed_from, em.speed_to, 0),
           !.rotation         = Lerp(RotationFrom, RotationTo, 0),
           !.color            = 100,
           !.alpha            = Opacity,
           !.blend            = Blend,
           !.texture          = Texture,
           !.live             = Lerp(LiveTimeFrom, LiveTimeTo, s.live),
           !.scale_increase   = ScaleIncrease,
           !.opacity_decrease = OpacityDecrease,
           !.color_from       = ColorFrom * Brightness,
           !.color_to         = ColorTo * Brightness,
           !.color_speed      = Lerp(ColorSpeedFrom, ColorSpeedTo, 0)]]

\* the field assignments to the record acquire() returned: each statement
\* writes one field of the record, whatever it held before
InitParticle(ps, em, s) ==
    [ps EXCEPT !.particles[Acquired(ps)] =
        [@ EXCEPT
           !.offset           = Lerp(0, Radius1, s.pos),
           !.scale            = ScaleFrom,
           !.quaternion       = Lerp(em.speed_from, em.speed_to, 0),
           !.rotation         = Lerp(RotationFrom, RotationTo, 0),
           !.color            = 100,
           !.alpha            = Opacity,
           !.blend            = Blend,
           !.texture          = Texture,
           !.live             = Lerp(LiveTimeFrom, LiveTimeTo, s.live),
           !.scale_increase   = ScaleIncrease,
           !.opacity_decrease = OpacityDecrease,
           !.color_from       = ColorFrom * Brightness,
           !.color_to         = ColorTo * Brightness,
           !.color_speed      = Lerp(ColorSpeedFrom, ColorSpeedTo, 0),
           !.color_pr         = 0]]

\* while (add--): iteration k of the spawn loop, with the samples it draws
RECURSIVE SpawnLoop(_, _, _, _)
SpawnLoop(ps, em, samples, k) ==
    IF k > Len(samples) THEN ps
    ELSE IF CapReached(Len(ps.active)) THEN ps
    ELSE SpawnLoop(InitParticle(Acquire(ps), em, samples[k]), em, samples, k + 1)

\* a typed-array store: an index outside the array is ignored
Store(buf, k, v) == IF k \in DOMAIN buf THEN [buf EXCEPT ![k] = v] ELSE buf

\* the integrator with a fixed step in place of deltaTime
AdvancedFixedStep(p, dt) ==
    [p EXCEPT !.offset = p.offset + p.quaternion,
              !.scale = p.scale + p.scale_increase,
              !.alpha = p.alpha - p.opacity_decrease,
              !.live = p.live - 1]

\* one particle advanced by the integrator
Advanced(p, dt) ==
    LET pr == IF p.color_pr + p.color_speed > 1 THEN 1 ELSE p.color_pr + p.color_speed
    IN [p EXCEPT !.offset = p.offset + p.quaternion,
                 !.scale = p.scale + p.scale_increase,
                 !.color_pr = pr,
                 !.color = p.color_from + (p.color_to - p.color_from) * pr,
                 !.alpha = p.alpha - p.opacity_decrease,
                 !.live = p.live - dt]

IsDeadAlphaOnly(p) == p.alpha <= 0

\* the test that releases a particle
IsDead(p) == p.live <= 0 \/ p.alpha <= 0

\* the buffer slot the pass writes particle number i (0-based) of the list to
SlotOf(i) == i

\* the body of the backward loop for the particle at index i of the live
\* active array; i is 1-based here, the buffer slot is SlotOf(i - 1).
\* st = [ps, pos, col, siz]
AdvanceOne(st, i, dt) ==
    LET id == st.ps.active[i]
        q  == Advanced(st.ps.particles[id], dt)
        ps1 == [st.ps EXCEPT !.particles[id] = q]
    IN IF IsDead(q)
       THEN [st EXCEPT !.ps = Release(ps1, id)]
       ELSE [st EXCEPT !.ps = ps1,
                       !.pos = Store(st.pos, SlotOf(i - 1), q.offset),
                       !.col = Store(st.col, SlotOf(i - 1), q.alpha),
                       !.siz = Store(st.siz, SlotOf(i - 1), q.scale)]

\* the iterations hi, hi - 1, .., lo of the pass, in that order: the upper
\* half of the range, then the lower.  The lower half reads active[mid] and
\* below, which the releases of the upper half have left in place.
RECURSIVE AdvanceRange(_, _, _, _)
AdvanceRange(st, lo, hi, dt) ==
    IF hi < lo THEN st
    ELSE IF lo = hi THEN AdvanceOne(st, lo, dt)
    ELSE LET mid == (lo + hi) \div 2
             upper == AdvanceRange(st, mid + 1, hi, dt)
         IN IF mid > Len(upper.ps.active) THEN upper
            ELSE AdvanceRange(upper, lo, mid, dt)

\* for (i = active.length - 1; i >= 0; i--): the pass from index i down
AdvancePass(st, i, dt) == AdvanceRange(st, 1, i, dt)

\* The number of points the renderer draws: smokeGeometry is created with
\* MAX_PARTICLES-long attributes and its draw range is never narrowed
drawCount == MAX_PARTICLES

\* initialize(): pushes the exhaust emitter (called once, when the models load)
Initialize ==
    /\ ~disposed
    /\ Len(emitters) = 0
    /\ emitters' = Append(emitters, ExhaustEmitter)
    /\ UNCHANGED <<pool, active, particles, smokePositions, smokeColors,
                   smokeSizes, psEnabled, psVisible, disposed, constructed, dropped,
                   spawnedFresh, spawnedReused, builtLazily, burst,
                   agedByDelta, lastRelease, lastSpawned>>
    /\ UNCHANGED <<otherVars, frameVars, rampVars, reverbVars, emissionVars, loadVars,
                   referenceVars>>

\* the number of iterations of the spawn loop that pass the cap test, of k
\* requested with n particles active
RECURSIVE SpawnRoom(_, _)
SpawnRoom(n, k) ==
    IF k = 0 \/ CapReached(n) THEN 0 ELSE 1 + SpawnRoom(n + 1, k - 1)

\* the samples of a call that requests k spawns: only the iterations that
\* spawn draw from Math.random(), so the others' samples are fixed
SampleSeqs(k) ==
    LET room == SpawnRoom(Len(active), k)
    IN {[j \in 1..k |-> IF j <= room THEN s[j] ELSE [pos |-> 0, live |-> 0]] :
          s \in [1..room -> Samples]}

\* what a spawn leaves in a record when every field comes from the emitter's
\* settings and the samples of the spawn
FreshParticle(em, s) ==
    [offset           |-> Lerp(0, Radius1, s.pos),
     scale            |-> ScaleFrom,
     quaternion       |-> Lerp(em.speed_from, em.speed_to, 0),
     rotation         |-> Lerp(RotationFrom, RotationTo, 0),
     color            |-> 100,
     alpha            |-> Opacity,
     blend            |-> Blend,
     texture          |-> Texture,
     live             |-> Lerp(LiveTimeFrom, LiveTimeTo, s.live),
     scale_increase   |-> ScaleIncrease,
     opacity_decrease |-> OpacityDecrease,
     color_from       |-> ColorFrom * Brightness,
     color_to         |-> ColorTo * Brightness,
     color_speed      |-> Lerp(ColorSpeedFrom, ColorSpeedTo, 0),
     color_pr         |-> 0]

\* the records the spawn loop appended to the active list, as it left them
SpawnedAllFresh(before, after, em, samples) ==
    \A j \in 1..(Len(after.active) - Len(before.active)) :
        after.particles[after.active[Len(before.active) + j]] = FreshParticle(em, samples[j])

\* update, after the early return: the emitters are configured, the spawn
\* loop runs with the draws it makes (samples), then the backward pass
UpdateParticles(dt, engineState, samples) ==
    LET ems == [k \in 1..Len(emitters) |-> Configure(emitters[k], engineState)]
        demand == IF Len(ems) > 0 THEN SpawnDemand(ems[1], dt) ELSE 0
    IN \E ps1 \in {IF Len(ems) > 0
                    THEN SpawnLoop(PoolState, ems[1], samples, 1)
                    ELSE PoolState} :
       \E st \in {AdvancePass([ps |-> ps1, pos |-> smokePositions,
                                col |-> smokeColors, siz |-> smokeSizes],
                               Len(ps1.active), dt)} :
            /\ emitters' = [k \in 1..Len(ems) |-> Integrate(ems[k], dt)]
            /\ pool' = st.ps.pool
            /\ active' = st.ps.active
            /\ particles' = st.ps.particles
            /\ constructed' = st.ps.constructed
            /\ smokePositions' = st.pos
            /\ smokeColors' = st.col
            /\ smokeSizes' = st.siz
            /\ dropped' = demand - (Len(ps1.active) - Len(active))
            /\ burst' = (demand = BurstDemand)
            /\ agedByDelta' =
                   \A id \in Range(active) \cap Range(st.ps.active) :
                       st.ps.particles[id].live = particles[id].live - dt
            /\ UNCHANGED lastRelease
            /\ lastSpawned' = Len(ps1.active) - Len(active)
            /\ LET spawned == Len(ps1.active) - Len(active)
                   built == ps1.constructed - constructed
               IN /\ spawnedFresh' = (Len(ems) > 0 =>
                                          SpawnedAllFresh(PoolState, ps1, ems[1], samples))
                  /\ spawnedReused' = (spawned > built)
                  /\ builtLazily' = (built = IF spawned > Len(pool)
                                             THEN spawned - Len(pool) ELSE 0)
            /\ UNCHANGED <<psEnabled, psVisible, disposed>>

\* the spawns update requests of the first emitter
Demand(dt, engineState) ==
    IF Len(emitters) > 0
    THEN SpawnDemand(Configure(emitters[1], engineState), dt)
    ELSE 0

\* update(deltaTime, engineState)
Update(dt, engineState) ==
    /\ ~disposed
    /\ IF ~psEnabled \/ ~psVisible
       THEN UNCHANGED psVars
       ELSE \E samples \in SampleSeqs(Demand(dt, engineState)) :
                UpdateParticles(dt, engineState, samples)
    /\ UNCHANGED <<otherVars, frameVars, rampVars, reverbVars, emissionVars, loadVars,
                   referenceVars>>

\* dispose(): clears the pool and the emitters (on page unload)
Dispose ==
    /\ ~disposed
    /\ LET ps == Clear(PoolState)
       IN /\ pool' = ps.pool
          /\ active' = ps.active
    /\ emitters' = <<>>
    /\ disposed' = TRUE
    /\ UNCHANGED <<particles, smokePositions, smokeColors, smokeSizes,
                   psEnabled, psVisible, constructed, dropped,
                   spawnedFresh, spawnedReused, builtLazily, burst,
                   agedByDelta, lastRelease, lastSpawned>>
    /\ UNCHANGED <<otherVars, frameVars, rampVars, reverbVars, emissionVars, loadVars,
                   referenceVars>>

\* particlePool used on its own: acquire(), release(particle) with any
\* record or a foreign object (0), clear()

\* records the pool is let to construct
MaxPoolRecords == 4

PoolUnchanged ==
    UNCHANGED <<emitters, smokePositions, smokeColors, smokeSizes, psEnabled,
                psVisible, disposed, dropped, spawnedFresh, spawnedReused,
                builtLazily, burst, agedByDelta, lastSpawned>>

PoolAcquire ==
    /\ Len(pool) > 0 \/ Len(particles) < MaxPoolRecords
    /\ LET ps == Acquire(PoolState)
       IN /\ pool' = ps.pool
          /\ active' = ps.active
          /\ particles' = ps.particles
          /\ constructed' = ps.constructed
    /\ lastRelease' = "none"
    /\ PoolUnchanged
    /\ UNCHANGED <<otherVars, frameVars, rampVars, reverbVars, emissionVars, loadVars,
                   referenceVars>>

PoolRelease(id) ==
    /\ LET ps == Release(PoolState, id)
       IN /\ pool' = ps.pool
          /\ active' = ps.active
          /\ particles' = ps.particles
          /\ constructed' = ps.constructed
    /\ lastRelease' = IF id \in Range(active) THEN "active"
                      ELSE IF id \in Range(pool) THEN "free"
                      ELSE "foreign"
    /\ PoolUnchanged
    /\ UNCHANGED <<otherVars, frameVars, rampVars, reverbVars, emissionVars, loadVars,
                   referenceVars>>

PoolClear ==
    /\ LET ps == Clear(PoolState)
       IN /\ pool' = ps.pool
          /\ active' = ps.active
    /\ lastRelease' = "none"
    /\ PoolUnchanged
    /\ UNCHANGED <<particles, constructed>>
    /\ UNCHANGED <<otherVars, frameVars, rampVars, reverbVars, emissionVars, loadVars,
                   referenceVars>>

NextPool ==
    \/ PoolAcquire
    \/ \E id \in 0..Len(particles) : PoolRelease(id)
    \/ PoolClear

\* the small settings are in use
InitReferenceIdle ==
    /\ atReference = FALSE
    /\ lifePattern = <<>>
    /\ updateCalls = 0

InitParticles ==
    /\ emitters = <<>>
    /\ pool = <<>>
    /\ active = <<>>
    /\ particles = <<>>
    /\ smokePositions = [k \in 0..(MAX_PARTICLES - 1) |-> 0]
    /\ smokeColors = [k \in 0..(MAX_PARTICLES - 1) |-> 0]
    /\ smokeSizes = [k \in 0..(MAX_PARTICLES - 1) |-> 0]
    /\ psEnabled = TRUE
    /\ psVisible = TRUE
    /\ disposed = FALSE
    /\ constructed = 0
    /\ dropped = 0
    /\ spawnedFresh = TRUE
    /\ spawnedReused = FALSE
    /\ builtLazily = TRUE
    /\ burst = FALSE
    /\ agedByDelta = TRUE
    /\ lastSpawned = 0
    /\ lastRelease = "none"

----------------------------------------------------------------------------
\* The perspective mixer: soundEngine.setEmitterVolumes

Perspectives == {"mix", "intake", "exhaust", "interior"}

\* individualEmitters
IndividualEmitters == {"intake", "exhaust", "interior"}

\* gain 1.0 and the per-call step 0.2, in hundredths
GainOne == 100
VolumeStep == 20

\* EmitterVolMults, in hundredths
MultMix == 80
MultIntake == 50
MultExhaust == 80
MultInterior == 30

EmitterVolMults(pos) ==
    CASE pos = "intake" -> MultIntake
      [] pos = "exhaust" -> MultExhaust
      [] pos = "interior" -> MultInterior

Min(a, b) == IF a < b THEN a ELSE b
Max(a, b) == IF a > b THEN a ELSE b
Abs(a) == IF a < 0 THEN 0 - a ELSE a

\* the target without the global multiplier
TargetVolumeNoMult(pos, currSoloState) ==
    IF currSoloState = "mix" THEN MultMix
    ELSE IF pos = currSoloState THEN GainOne ELSE 0

\* targetVolume = Math.max(0, Math.min(1, baseTarget * multiplier))
TargetVolume(pos, currSoloState) ==
    LET baseTarget == IF currSoloState = "mix" THEN MultMix
                      ELSE IF pos = currSoloState THEN GainOne ELSE 0
    IN Max(0, Min(GainOne, (baseTarget * EmitterVolMults(pos)) \div GainOne))

\* the smooth volume transition: one step toward the target, clamped to it
StepUnclamped(currentVol, targetVolume) ==
    IF currentVol < targetVolume THEN currentVol + VolumeStep
    ELSE IF currentVol > targetVolume THEN currentVol - VolumeStep
    ELSE currentVol
StepToward(currentVol, targetVolume) ==
    IF currentVol < targetVolume THEN Min(targetVolume, currentVol + VolumeStep)
    ELSE IF currentVol > targetVolume THEN Max(targetVolume, currentVol - VolumeStep)
    ELSE currentVol

\* setEmitterVolumes(currSoloState): the gains after the call.  setVolume is
\* a store of the gain and getVolume reads it back, in exact arithmetic.
SetEmitterVolumes(vol, currSoloState) ==
    [pos \in Perspectives |->
        IF pos \in IndividualEmitters
        THEN StepToward(vol[pos], TargetVolume(pos, currSoloState))
        ELSE 0]

\* the gains the emitters are created with
InitialVolumes == [pos \in Perspectives |-> IF pos = "mix" THEN GainOne ELSE 0]

----------------------------------------------------------------------------
\* The frame loop and the drive state

\* timeScale set by ignitionOn, and that of a new THREE.AnimationMixer
TimeScaleStart == 1
TimeScaleDefault == 100

\* the iterations a ramp loop runs before its exit test holds: the least n
\* with n steps of dt covering the distance left
LoopIterations(distance, dt) ==
    CHOOSE n \in 1..distance : n * dt >= distance /\ (n - 1) * dt < distance

\* case ACCEL of tick: while (timeScale < 1.0) { timeScale += deltaTime; ... }
\* The loop is left only through its inner test, which clamps the time scale
\* and sets DRIVE; it is not entered when the time scale is already 1.0.
AccelLoop(ts, dt) ==
    IF ts < GainOne
    THEN IF ts + LoopIterations(GainOne - ts, dt) * dt >= GainOne
         THEN [timeScale |-> GainOne, driveState |-> "drive"]
         ELSE [timeScale |-> ts, driveState |-> "accel"]
    ELSE [timeScale |-> ts, driveState |-> "accel"]

\* case DECEL of tick: while (timeScale > 0.0) { timeScale -= deltaTime; ... }
DecelLoop(ts, dt) ==
    IF ts > 0
    THEN IF ts - LoopIterations(ts, dt) * dt <= 0
         THEN [timeScale |-> 0, driveState |-> "stop"]
         ELSE [timeScale |-> ts, driveState |-> "decel"]
    ELSE [timeScale |-> ts, driveState |-> "decel"]

\* the switch (driveState) of tick
WheelRamp(state, ts, dt) ==
    CASE state = "accel" -> AccelLoop(ts, dt)
      [] state = "decel" -> DecelLoop(ts, dt)
      [] OTHER -> [timeScale |-> ts, driveState |-> state]

\* createControls({ initHeadlights: true })
InitHeadlights == TRUE

\* clicks on the headlights button that are followed
MaxClicks == 4

\* the value the headlights callback receives
OnOff(on) == IF on THEN "on" ELSE "off"

\* the beams in the order animateBeams sets them: [0, 1, 2] to turn on,
\* [2, 1, 0] to turn off (indices from 1 here)
BeamOrder(turnOn) == IF turnOn THEN <<1, 2, 3>> ELSE <<3, 2, 1>>

\* setBeamState(idx, on)
SetBeamState(bs, idx, on) == [bs EXCEPT ![idx] = on]

\* ensurePanel() when the panel does not exist yet: the button is built and
\* updateHeadlightsButton(false) sets the three beams and calls the
\* registered callback; afterwards update() finds the panel
EnsurePanel ==
    IF panelCreated
    THEN UNCHANGED controlsVars
    ELSE /\ beams' = [idx \in 1..3 |-> headlightsOn]
         /\ lastReported' = OnOff(headlightsOn)
         /\ UNCHANGED <<headlightsOn, beamsAnimating, beamTurnOn, beamIndex,
                        headlightClicks, headlightCalls>>

\* the click listener of the headlights button: headlightsOn is toggled and
\* updateHeadlightsButton(true) calls animateBeams, which returns at once
\* when an animation is running and otherwise runs the first step()
HeadlightsClick ==
    /\ panelCreated
    /\ ~tickSpinning
    /\ headlightClicks < MaxClicks
    /\ headlightClicks' = headlightClicks + 1
    /\ headlightsOn' = ~headlightsOn
    /\ IF beamsAnimating
       THEN UNCHANGED <<beamsAnimating, beamTurnOn, beamIndex, beams>>
       ELSE /\ beamsAnimating' = TRUE
            /\ beamTurnOn' = ~headlightsOn
            /\ beams' = SetBeamState(beams, BeamOrder(~headlightsOn)[1], ~headlightsOn)
            /\ beamIndex' = 2
    /\ UNCHANGED <<headlightCalls, lastReported>>
    /\ UNCHANGED <<stallVars, holdVars, psVars, frameVars, rampVars, reverbVars,
                   emissionVars, loadVars, referenceVars>>

\* a step() of animateBeams run by its timer: the next beam is set; after
\* the third the animation is over and the callback passed by
\* updateHeadlightsButton runs, which reads headlightsOn then
BeamStep ==
    /\ beamsAnimating
    /\ ~tickSpinning
    /\ beams' = SetBeamState(beams, BeamOrder(beamTurnOn)[beamIndex], beamTurnOn)
    /\ IF beamIndex < 3
       THEN /\ beamIndex' = beamIndex + 1
            /\ UNCHANGED <<beamsAnimating, headlightCalls, lastReported>>
       ELSE /\ beamIndex' = 1
            /\ beamsAnimating' = FALSE
            /\ headlightCalls' = headlightCalls + 1
            /\ lastReported' = OnOff(headlightsOn)
    /\ UNCHANGED <<headlightsOn, beamTurnOn, headlightClicks>>
    /\ UNCHANGED <<stallVars, holdVars, psVars, frameVars, rampVars, reverbVars,
                   emissionVars, loadVars, referenceVars>>

\* the controls as createControls returns them: no panel yet
InitControls ==
    /\ headlightsOn = InitHeadlights
    /\ beamsAnimating = FALSE
    /\ beamTurnOn = InitHeadlights
    /\ beamIndex = 1
    /\ beams = [idx \in 1..3 |-> TRUE]
    /\ headlightClicks = 0
    /\ headlightCalls = 0
    /\ lastReported = "none"

\* a tick while the page is visible: the wheel ramp (when the wheel mixer
\* exists), setEmitterVolumes(soloState) and controlsPanel.update().  Its call
\* particleSystem.update(deltaTime, driveState) writes only the particle
\* variables and reads nothing else of the frame loop; it is the action Update,
\* explored for every drive state under ParticleSpec.
VisibleTick(dt) ==
    /\ isPageVisible
    /\ LET r == IF modelsLoaded THEN WheelRamp(driveState, timeScale, dt)
                ELSE [timeScale |-> timeScale, driveState |-> driveState]
       IN /\ driveState' = r.driveState
          /\ timeScale' = r.timeScale
    /\ volume' = SetEmitterVolumes(volume, soloState)
    /\ panelCreated' = TRUE
    /\ EnsurePanel
    /\ frameParity' = 1 - frameParity
    /\ UNCHANGED <<modelsLoaded, isPageVisible, ignitionOn, soloState>>
    /\ UNCHANGED <<stallVars, holdVars, psVars, rampVars, reverbVars, emissionVars,
                   loadVars, referenceVars>>

\* a tick while the page is hidden only renders and requests the next frame
HiddenTick ==
    /\ ~isPageVisible
    /\ frameParity' = 1 - frameParity
    /\ UNCHANGED <<driveState, modelsLoaded, timeScale, isPageVisible, panelCreated,
                   ignitionOn, soloState, volume>>
    /\ UNCHANGED <<otherVars, psVars, rampVars, reverbVars, emissionVars, loadVars, referenceVars>>

\* tick
Tick(dt) == VisibleTick(dt) \/ HiddenTick

\* a ramp loop of tick entered with a deltaTime that does not move the time
\* scale: its exit test never holds
RampSpins(state, ts, dt) ==
    /\ dt = 0
    /\ \/ state = "accel" /\ ts < GainOne
       \/ state = "decel" /\ ts > 0

\* a visible tick whose deltaTime is 0 (two frames with the same clock
\* reading): with the wheel mixer built and a ramp to run, the while loop is
\* never left and nothing after it runs; otherwise the switch does nothing
\* and the rest of the tick runs
ZeroTick ==
    /\ isPageVisible
    /\ ~tickSpinning
    /\ IF modelsLoaded /\ RampSpins(driveState, timeScale, 0)
       THEN /\ tickSpinning' = TRUE
            /\ UNCHANGED <<frameVars, controlsVars>>
       ELSE /\ tickSpinning' = FALSE
            /\ volume' = SetEmitterVolumes(volume, soloState)
            /\ panelCreated' = TRUE
            /\ EnsurePanel
            /\ frameParity' = 1 - frameParity
            /\ UNCHANGED <<driveState, timeScale, modelsLoaded, isPageVisible,
                           ignitionOn, soloState>>
    /\ UNCHANGED <<holdVars, psVars, rampVars, reverbVars, emissionVars, loadVars,
                   referenceVars>>

\* initializeModels resolves: the wheel mixer and the solo buttons exist
ModelsLoaded ==
    /\ ~modelsLoaded
    /\ modelsLoaded' = TRUE
    /\ timeScale' = TimeScaleDefault
    /\ UNCHANGED <<driveState, isPageVisible, panelCreated, ignitionOn, soloState, volume>>
    /\ UNCHANGED frameParity
    /\ UNCHANGED <<otherVars, psVars, rampVars, reverbVars, emissionVars, loadVars, referenceVars>>

\* the visibilitychange listener
VisibilityChange ==
    /\ isPageVisible' = ~isPageVisible
    /\ UNCHANGED <<driveState, modelsLoaded, timeScale, panelCreated, ignitionOn,
                   soloState, volume>>
    /\ UNCHANGED frameParity
    /\ UNCHANGED <<otherVars, psVars, rampVars, reverbVars, emissionVars, loadVars, referenceVars>>

\* soundEngine.ignitionOn
IgnitionOn ==
    /\ driveState' = "accel"
    /\ timeScale' = IF modelsLoaded THEN TimeScaleStart ELSE timeScale

IgnitionOffHalts ==
    /\ driveState' = "stop"
    /\ timeScale' = timeScale

\* soundEngine.ignitionOff
IgnitionOff ==
    /\ driveState' = "decel"
    /\ timeScale' = timeScale

\* a click on the ignition button: the toggle flips and the registered
\* callback starts or stops the engine
IgnitionClick ==
    /\ panelCreated
    /\ isPageVisible
    /\ ignitionOn' = ~ignitionOn
    /\ IF ignitionOn' THEN IgnitionOn ELSE IgnitionOff
    /\ UNCHANGED <<modelsLoaded, isPageVisible, panelCreated, soloState, volume>>
    /\ UNCHANGED frameParity
    /\ UNCHANGED <<otherVars, psVars, rampVars, reverbVars, emissionVars, loadVars, referenceVars>>

\* a click on the solo button of perspective pos
SoloClick(pos) ==
    /\ modelsLoaded
    /\ isPageVisible
    /\ soloState' = IF soloState = pos THEN "mix" ELSE pos
    /\ UNCHANGED <<driveState, modelsLoaded, timeScale, isPageVisible, panelCreated,
                   ignitionOn, volume>>
    /\ UNCHANGED frameParity
    /\ UNCHANGED <<otherVars, psVars, rampVars, reverbVars, emissionVars, loadVars, referenceVars>>

InitFrame ==
    /\ driveState = "stop"
    /\ modelsLoaded = FALSE
    /\ timeScale = TimeScaleDefault
    /\ isPageVisible = TRUE   \* a page opened hidden is the state after VisibilityChange
    /\ panelCreated = FALSE
    /\ ignitionOn = FALSE
    /\ frameParity = 0
    /\ soloState = "mix"
    /\ volume = InitialVolumes

----------------------------------------------------------------------------
\* One gain stepped toward one target by the ramp of setEmitterVolumes

\* history counter of calls is capped here
MaxRampCalls == 6

Gains == 0..GainOne

RampStep ==
    /\ rampGain' = StepToward(rampGain, rampTarget)
    /\ rampCalls' = Min(rampCalls + 1, MaxRampCalls)
    /\ UNCHANGED <<rampTarget, rampStart>>
    /\ UNCHANGED <<otherVars, psVars, frameVars, reverbVars, emissionVars, loadVars, referenceVars>>

InitRampIdle ==
    /\ rampGain = 0
    /\ rampTarget = 0
    /\ rampStart = 0
    /\ rampCalls = 0

InitRamp ==
    /\ rampGain \in Gains
    /\ rampTarget \in Gains
    /\ rampStart = rampGain
    /\ rampCalls = 0

----------------------------------------------------------------------------
\* The convolution reverb: the preset selector, applyConvolutionReverb and
\* removeConvolutionReverb

\* loads that may be requested
MaxLoads == 3

\* null, of a number
NullNumber == 0 - 1

\* reverbMap, blend and scalingFactor in hundredths
Presets == {"Garage", "Outdoors"}
GarageBlend == 80
GarageScaling == 33
OutdoorsBlend == 60
OutdoorsScaling == 20
DefaultBlend == 50

ReverbMap(name) ==
    IF name = "Garage"
    THEN [blend |-> GarageBlend, scalingFactor |-> GarageScaling]
    ELSE [blend |-> OutdoorsBlend, scalingFactor |-> OutdoorsScaling]

\* Object.values(audioEmitters), in order
EmitterOrder == <<"mix", "intake", "exhaust", "interior">>

\* the nodes of the graph: the panner of an emitter, the destination of the
\* context, and the nodes created by the id-th call of applyConvolutionReverb
Panner(pos) == <<pos, "panner", 0>>
Destination == <<"ctx", "destination", 0>>
Node(pos, kind, id) == <<pos, kind, id>>

\* null, of emitter._reverbNodes
NullNode == <<"null", "null", 0>>
Null == [convolver |-> NullNode, wetGain |-> NullNode, dryGain |-> NullNode]

\* node.disconnect(): removes every outgoing connection of the node
DisconnectNothing(es, node) == es
Disconnect(es, node) == {e \in es : e[1] # node}

\* from.connect(to)
Connect(es, from, to) == es \cup {<<from, to>>}

\* the try block of both operations: dryGain, wetGain, convolver disconnected
DisconnectReverbNodes(es, nodes) ==
    Disconnect(Disconnect(Disconnect(es, nodes.dryGain), nodes.wetGain), nodes.convolver)

\* which of the three disconnect() calls of a try block throws: 0 for none
ThrowPoints == 0..3
NoThrows == [pos \in Perspectives |-> 0]

\* loads requested while disconnect() calls throw
MaxThrowLoads == 2

\* the throws of one call: the try block of one emitter throws, at any of
\* its calls, or none does
Throws ==
    {[pos \in Perspectives |-> IF pos = thrower THEN throwAt ELSE 0] :
        thrower \in Perspectives, throwAt \in ThrowPoints}

\* the try block left at the throwAt-th disconnect(), which has no effect;
\* the calls after it are skipped
DisconnectReverbNodesUntil(es, nodes, throwAt) ==
    CASE throwAt = 1 -> es
      [] throwAt = 2 -> Disconnect(es, nodes.dryGain)
      [] throwAt = 3 -> Disconnect(Disconnect(es, nodes.dryGain), nodes.wetGain)
      [] OTHER -> DisconnectReverbNodes(es, nodes)

\* the same statements without the try: a throw leaves the forEach body, the
\* reference is not cleared
TryDisconnectUncaught(g, pos, throwAt) ==
    IF g.nodes[pos] # Null /\ throwAt = 0
    THEN [g EXCEPT !.edges = DisconnectReverbNodes(g.edges, g.nodes[pos]),
                   !.nodes = [g.nodes EXCEPT ![pos] = Null]]
    ELSE g

\* if (emitter._reverbNodes) { try { ... } catch { }; _reverbNodes = null }
TryDisconnect(g, pos, throwAt) ==
    IF g.nodes[pos] # Null
    THEN [g EXCEPT !.edges = DisconnectReverbNodesUntil(g.edges, g.nodes[pos], throwAt),
                   !.nodes = [g.nodes EXCEPT ![pos] = Null]]
    ELSE g

\* blend and scaling factor as applyConvolutionReverb reads them: a null
\* blend is 0.5, a null scaling factor multiplies as 0
BlendRead == IF currentReverbBlend = NullNumber THEN DefaultBlend ELSE currentReverbBlend
ScalingRead == IF currentReverbScalingFactor = NullNumber THEN 0 ELSE currentReverbScalingFactor

\* the body of the forEach of applyConvolutionReverb for one emitter;
\* g = [nodes, edges, param], id numbers the nodes it creates
ApplyToEmitterThrowing(g, pos, reverbBuffer, id, throwAt) ==
    LET cleared == TryDisconnect(g, pos, throwAt).edges
        convolver == Node(pos, "convolver", id)
        wetGain == Node(pos, "wetGain", id)
        dryGain == Node(pos, "dryGain", id)
        sourceNode == Panner(pos)
    IN [nodes |-> [g.nodes EXCEPT ![pos] =
                      [convolver |-> convolver, wetGain |-> wetGain, dryGain |-> dryGain]],
        edges |-> Connect(Connect(Connect(Connect(Connect(cleared,
                      sourceNode, dryGain),
                      dryGain, Destination),
                      sourceNode, convolver),
                      convolver, wetGain),
                      wetGain, Destination),
        param |-> (convolver :> reverbBuffer)
                  @@ (wetGain :> BlendRead * ScalingRead)
                  @@ (dryGain :> (GainOne - BlendRead) * ScalingRead)
                  @@ g.param]

\* the same body when no disconnect() throws
ApplyToEmitter(g, pos, reverbBuffer, id) == ApplyToEmitterThrowing(g, pos, reverbBuffer, id, 0)

\* the body of the forEach of removeConvolutionReverb for one emitter
RemoveFromEmitterThrowing(g, pos, throwAt) == TryDisconnect(g, pos, throwAt)
RemoveFromEmitter(g, pos) == RemoveFromEmitterThrowing(g, pos, 0)

\* the forEach of applyConvolutionReverb; throws[pos] is the disconnect()
\* that throws for the emitter pos
RECURSIVE ApplyAll(_, _, _, _, _)
ApplyAll(g, k, reverbBuffer, id, throws) ==
    IF k > Len(EmitterOrder) THEN g
    ELSE ApplyAll(ApplyToEmitterThrowing(g, EmitterOrder[k], reverbBuffer, id,
                                         throws[EmitterOrder[k]]),
                  k + 1, reverbBuffer, id, throws)

\* the forEach of removeConvolutionReverb
RECURSIVE RemoveAll(_, _, _)
RemoveAll(g, k, throws) ==
    IF k > Len(EmitterOrder) THEN g
    ELSE RemoveAll(RemoveFromEmitterThrowing(g, EmitterOrder[k], throws[EmitterOrder[k]]),
                   k + 1, throws)

\* a disconnect() of the call threw: an emitter with stored nodes has a
\* throw point
Threw(throws) == \E pos \in Perspectives : reverbNodes[pos] # Null /\ throws[pos] > 0

Graph == [nodes |-> reverbNodes, edges |-> edges, param |-> nodeParam]

\* soundEngine.applyConvolutionReverb(reverbBuffer), nodes numbered id, with
\* the disconnect() calls that throw
ApplyConvolutionReverbThrowing(reverbBuffer, id, throws) ==
    \E g \in {ApplyAll(Graph, 1, reverbBuffer, id, throws)} :
        /\ reverbNodes' = g.nodes
        /\ edges' = g.edges
        /\ nodeParam' = g.param
        /\ lastReverbCall' = "apply"
        /\ disconnectThrew' = Threw(throws)
        /\ lastApplyId' = id
        /\ UNCHANGED <<currentReverbBlend, currentReverbScalingFactor>>

\* the same call when no disconnect() throws
ApplyConvolutionReverb(reverbBuffer, id) ==
    ApplyConvolutionReverbThrowing(reverbBuffer, id, NoThrows)

\* soundEngine.removeConvolutionReverb(), with the disconnect() calls that
\* throw
RemoveConvolutionReverbThrowing(throws) ==
    \E g \in {RemoveAll(Graph, 1, throws)} :
        /\ reverbNodes' = g.nodes
        /\ edges' = g.edges
        /\ nodeParam' = g.param
        /\ lastReverbCall' = "remove"
        /\ disconnectThrew' = Threw(throws)
        /\ currentReverbBlend' = NullNumber
        /\ currentReverbScalingFactor' = NullNumber
        /\ UNCHANGED lastApplyId

\* the same call when no disconnect() throws
RemoveConvolutionReverb == RemoveConvolutionReverbThrowing(NoThrows)

\* onChange of the reverb selector with 'None'
SelectNone ==
    /\ reverbSelection # "None"
    /\ reverbSelection' = "None"
    /\ RemoveConvolutionReverb
    /\ UNCHANGED <<pendingLoads, loadsRequested>>
    /\ UNCHANGED <<otherVars, psVars, frameVars, rampVars, emissionVars, loadVars, referenceVars>>

\* onChange of the reverb selector with a preset: blend and scaling factor
\* are set and the load of the impulse response starts
SelectPreset(name) ==
    /\ reverbSelection # name
    /\ loadsRequested < MaxLoads
    /\ reverbSelection' = name
    /\ currentReverbBlend' = ReverbMap(name).blend
    /\ currentReverbScalingFactor' = ReverbMap(name).scalingFactor
    /\ loadsRequested' = loadsRequested + 1
    /\ pendingLoads' = pendingLoads \cup {[id |-> loadsRequested + 1, preset |-> name]}
    /\ UNCHANGED <<reverbNodes, edges, nodeParam, lastReverbCall, disconnectThrew,
                   lastApplyId>>
    /\ UNCHANGED <<otherVars, psVars, frameVars, rampVars, emissionVars, loadVars, referenceVars>>

\* the load of an impulse response resolves: its buffer is applied
LoadResolved(load) ==
    /\ load \in pendingLoads
    /\ pendingLoads' = pendingLoads \ {load}
    /\ ApplyConvolutionReverb(load.preset, load.id)
    /\ UNCHANGED <<reverbSelection, loadsRequested>>
    /\ UNCHANGED <<otherVars, psVars, frameVars, rampVars, emissionVars, loadVars, referenceVars>>

\* the load of an impulse response rejects: the error is shown
LoadFailed(load) ==
    /\ load \in pendingLoads
    /\ pendingLoads' = pendingLoads \ {load}
    /\ UNCHANGED <<reverbSelection, currentReverbBlend, currentReverbScalingFactor,
                   loadsRequested, reverbNodes, edges, nodeParam, lastReverbCall,
                   disconnectThrew, lastApplyId>>
    /\ UNCHANGED <<otherVars, psVars, frameVars, rampVars, emissionVars, loadVars, referenceVars>>

InitReverb ==
    /\ reverbSelection = "None"
    /\ currentReverbBlend = NullNumber
    /\ currentReverbScalingFactor = NullNumber
    /\ pendingLoads = {}
    /\ loadsRequested = 0
    /\ reverbNodes = [pos \in Perspectives |-> Null]
    /\ edges = {}
    /\ nodeParam = <<>>
    /\ lastReverbCall = "none"
    /\ disconnectThrew = FALSE
    /\ lastApplyId = 0

\* onChange with 'None' while disconnect() calls throw
SelectNoneThrowing(throws) ==
    /\ reverbSelection # "None"
    /\ reverbSelection' = "None"
    /\ RemoveConvolutionReverbThrowing(throws)
    /\ UNCHANGED <<pendingLoads, loadsRequested>>
    /\ UNCHANGED <<otherVars, psVars, frameVars, rampVars, emissionVars, loadVars, referenceVars>>

\* a load resolves and the buffer is applied while disconnect() calls throw
LoadResolvedThrowing(load, throws) ==
    /\ load \in pendingLoads
    /\ pendingLoads' = pendingLoads \ {load}
    /\ ApplyConvolutionReverbThrowing(load.preset, load.id, throws)
    /\ UNCHANGED <<reverbSelection, loadsRequested>>
    /\ UNCHANGED <<otherVars, psVars, frameVars, rampVars, emissionVars, loadVars, referenceVars>>

\* the selector and the loads, every disconnect() free to throw
NextThrowing ==
    \/ \E throws \in Throws : SelectNoneThrowing(throws)
    \/ \E name \in Presets : loadsRequested < MaxThrowLoads /\ SelectPreset(name)
    \/ \E load \in pendingLoads, throws \in Throws :
          LoadResolvedThrowing(load, throws)
    \/ \E load \in pendingLoads : LoadFailed(load)

NextReverb ==
    \/ SelectNone
    \/ \E name \in Presets : SelectPreset(name)
    \/ \E load \in pendingLoads : LoadResolved(load)
    \/ \E load \in pendingLoads : LoadFailed(load)

----------------------------------------------------------------------------
\* One enabled emitter called with a constant deltaTime and a constant
\* add_time: the accumulator of update

\* largest deltaTime and add_time drawn, and the cap of the call counter
MaxEmitDelta == 5
MaxEmitAddTime == 5
MaxEmitCalls == 1000

\* the accumulator part of one update call: add is requested, its time
\* leaves elapsed
EmitCall ==
    /\ emitCalls < MaxEmitCalls
    /\ emitSpawns' = emitSpawns + SpawnDemand(emitEmitter, emitDelta)
    /\ emitEmitter' = Integrate(emitEmitter, emitDelta)
    /\ emitCalls' = emitCalls + 1
    /\ emitPrev' = emitEmitter
    /\ UNCHANGED emitDelta
    /\ UNCHANGED <<otherVars, psVars, frameVars, rampVars, reverbVars, loadVars, referenceVars>>

\* calls of update the accumulator is followed over
MaxAccumCalls == 6

\* update, lines 175-189 for one emitter: configure for the drive state of
\* the call, then accumulate
EmitUpdate(dt, engineState) ==
    /\ emitCalls < MaxAccumCalls
    /\ emitSpawns' = emitSpawns + SpawnDemand(Configure(emitEmitter, engineState), dt)
    /\ emitEmitter' = Integrate(Configure(emitEmitter, engineState), dt)
    /\ emitCalls' = emitCalls + 1
    /\ emitPrev' = emitEmitter
    /\ emitDelta' = dt
    /\ UNCHANGED <<otherVars, psVars, frameVars, rampVars, reverbVars, loadVars, referenceVars>>

InitEmissionIdle ==
    /\ emitDelta = 1
    /\ emitEmitter = ExhaustEmitter
    /\ emitCalls = 0
    /\ emitSpawns = 0
    /\ emitPrev = emitEmitter

\* every deltaTime and add_time, the emitter enabled, elapsed: 0 as
\* initialize() leaves it
InitEmission ==
    /\ emitDelta \in 1..MaxEmitDelta
    /\ \E a \in 1..MaxEmitAddTime :
         emitEmitter = [ExhaustEmitter EXCEPT !.enabled = TRUE, !.add_time = a]
    /\ emitCalls = 0
    /\ emitSpawns = 0
    /\ emitPrev = emitEmitter

----------------------------------------------------------------------------
\* soundEngine.load(): the preload of the positional sound buffers

\* keys of soundEngine.buffers[pos]; revShort, revMedium, revLong and
\* ignitionOff go through the same code as these two
BufferKeys == {"ignitionOn", "idle"}

\* one file per perspective with buffers (mix has none) and key
AudioFiles == IndividualEmitters \X BufferKeys

\* the pushed promise without its .catch
PushedPromiseUncaught(outcome) == IF outcome = "rejected" THEN "rejected" ELSE "fulfilled"

\* how the promise load() pushes for a file settles, given the outcome of
\* loadAudioFile: .then stores the buffer, .catch logs and returns, so the
\* promise is fulfilled either way
PushedPromise(outcome) == "fulfilled"

\* loadAudioFile resolves: the .then of load() stores the buffer
AudioFileLoaded(file) ==
    /\ audioLoad[file] = "pending"
    /\ audioLoad' = [audioLoad EXCEPT ![file] = "resolved"]
    /\ buffers' = [buffers EXCEPT ![file] = "buffer"]
    /\ UNCHANGED <<audioLoaded, errorOverlay, readyVars>>
    /\ UNCHANGED <<otherVars, psVars, frameVars, rampVars, reverbVars, emissionVars,
                   referenceVars>>

\* loadAudioFile rejects: the .catch of load() logs the error
AudioFileFailed(file) ==
    /\ audioLoad[file] = "pending"
    /\ audioLoad' = [audioLoad EXCEPT ![file] = "rejected"]
    /\ UNCHANGED <<buffers, audioLoaded, errorOverlay, readyVars>>
    /\ UNCHANGED <<otherVars, psVars, frameVars, rampVars, reverbVars, emissionVars,
                   referenceVars>>

\* the test of checkSceneReady without its conditions
SceneBecomesReadyAlways(models, audio, ready) == TRUE

\* checkSceneReady(): the test that guards the assignment
SceneBecomesReady(models, audio, ready) == models /\ audio /\ ~ready

\* checkSceneReady(), called with the flags as the caller has left them
CheckSceneReady(models, audio) ==
    /\ sceneReady' = (sceneReady \/ SceneBecomesReady(models, audio, sceneReady))
    /\ sceneReadySets' = IF SceneBecomesReady(models, audio, sceneReady)
                         THEN sceneReadySets + 1 ELSE sceneReadySets

\* initializeModels() runs to its end after the three models have loaded:
\* initState.modelsLoaded is set and the promise resolves
ModelsSetUp ==
    /\ modelsInit = "pending"
    /\ modelsInit' = "returned"
    /\ initModelsLoaded' = TRUE
    /\ UNCHANGED <<audioLoad, buffers, audioLoaded, errorOverlay, sceneReady,
                   sceneReadySets>>
    /\ UNCHANGED <<otherVars, psVars, frameVars, rampVars, reverbVars, emissionVars,
                   referenceVars>>

\* a model fails to load: the catch of initializeModels() shows the error
\* and the function returns
ModelsFailed ==
    /\ modelsInit = "pending"
    /\ modelsInit' = "returned"
    /\ errorOverlay' = "models"
    /\ UNCHANGED <<audioLoad, buffers, audioLoaded, initModelsLoaded, sceneReady,
                   sceneReadySets>>
    /\ UNCHANGED <<otherVars, psVars, frameVars, rampVars, reverbVars, emissionVars,
                   referenceVars>>

\* initializeModels().then(() => checkSceneReady())
ModelsThen ==
    /\ modelsInit = "returned"
    /\ modelsInit' = "checked"
    /\ CheckSceneReady(initModelsLoaded, audioLoaded)
    /\ UNCHANGED <<audioLoad, buffers, audioLoaded, errorOverlay, initModelsLoaded>>
    /\ UNCHANGED <<otherVars, psVars, frameVars, rampVars, reverbVars, emissionVars,
                   referenceVars>>

\* Promise.all(loadPromises) settles: .then when every pushed promise is
\* fulfilled, .catch with the warning when one is rejected; both set
\* audioLoaded and call checkSceneReady()
AudioAllSettled ==
    /\ ~audioLoaded
    /\ \A file \in AudioFiles : audioLoad[file] # "pending"
    /\ audioLoaded' = TRUE
    /\ CheckSceneReady(initModelsLoaded, TRUE)
    /\ UNCHANGED <<modelsInit, initModelsLoaded>>
    /\ errorOverlay' =
          IF \E file \in AudioFiles : PushedPromise(audioLoad[file]) = "rejected"
          THEN "warning"
          ELSE errorOverlay
    /\ UNCHANGED <<audioLoad, buffers>>
    /\ UNCHANGED <<otherVars, psVars, frameVars, rampVars, reverbVars, emissionVars,
                   referenceVars>>

\* the state right after soundEngine.load() has been called at start-up
\* no tick is running
InitStall == tickSpinning = FALSE

InitHold == stopHeld = FALSE

InitOther == InitStall /\ InitHold /\ InitControls

InitLoad ==
    /\ audioLoad = [file \in AudioFiles |-> "pending"]
    /\ buffers = [file \in AudioFiles |-> "null"]
    /\ audioLoaded = FALSE
    /\ errorOverlay = "none"
    /\ modelsInit = "pending"
    /\ initModelsLoaded = FALSE
    /\ sceneReady = FALSE
    /\ sceneReadySets = 0

NextLoad ==
    \/ \E file \in AudioFiles : AudioFileLoaded(file)
    \/ \E file \in AudioFiles : AudioFileFailed(file)
    \/ AudioAllSettled
    \/ ModelsSetUp
    \/ ModelsFailed
    \/ ModelsThen

----------------------------------------------------------------------------
\* The particle system at the settings of exhaust.js, with the drive state
\* held at accel and a constant deltaTime

\* deltaTime of every call: 0.02 s
ReferenceDelta == 2

\* longest pattern of lifetime draws, and the cap of the call counter
MaxPatternLen == 3
MaxRefCalls == 120

\* a pattern gives, for each call of a period, the draw of Math.random()
\* for the lifetime of the first and of the second particle it spawns
LifePatterns == UNION {[1..p -> [1..2 -> RandomUnit]] : p \in 1..MaxPatternLen}

\* the draws of the call after updateCalls calls: lifetimes from the
\* pattern, positions at the centre
PatternSamples ==
    LET draws == lifePattern[(updateCalls % Len(lifePattern)) + 1]
    IN [j \in 1..Demand(ReferenceDelta, "accel") |->
           [pos |-> 0, live |-> draws[((j - 1) % 2) + 1]]]

\* update(0.02, 'accel'), after initialize()
UpdateReference ==
    /\ Len(emitters) > 0
    /\ updateCalls < MaxRefCalls
    /\ UpdateParticles(ReferenceDelta, "accel", PatternSamples)
    /\ updateCalls' = updateCalls + 1
    /\ UNCHANGED <<atReference, lifePattern>>
    /\ UNCHANGED <<otherVars, frameVars, rampVars, reverbVars, emissionVars, loadVars>>

NextReference ==
    \/ Initialize
    \/ UpdateReference

InitReference ==
    /\ atReference = TRUE
    /\ lifePattern \in LifePatterns
    /\ updateCalls = 0

----------------------------------------------------------------------------
\* Specifications

Init ==
    /\ InitReferenceIdle
    /\ InitParticles /\ InitFrame /\ InitRampIdle /\ InitReverb
    /\ InitEmissionIdle /\ InitLoad /\ InitOther

Next ==
    \/ \E dt \in DeltaTimes : Tick(dt)
    \/ ModelsLoaded
    \/ VisibilityChange
    \/ IgnitionClick
    \/ \E pos \in IndividualEmitters : SoloClick(pos)

\* the frame loop with the drive state and the mixer
Spec == Init /\ [][Next]_vars

\* the frame loop when the clock may read the same in two frames; while a
\* tick spins no other callback runs
NextZeroDelta ==
    \/ ~tickSpinning /\ Next
    \/ ZeroTick

ZeroDeltaSpec == Init /\ [][NextZeroDelta]_vars

\* the headlights button of the controls panel on a visible page
NextControls ==
    \/ \E dt \in DeltaTimes : VisibleTick(dt)
    \/ HeadlightsClick
    \/ BeamStep

ControlsSpec == Init /\ [][NextControls]_vars

\* rAF fires while the page is visible, the model load completes, and a
\* hidden page is shown again
FairSpec ==
    /\ Spec
    /\ SF_vars(\E dt \in DeltaTimes : VisibleTick(dt))
    /\ WF_vars(ModelsLoaded)
    /\ WF_vars(~isPageVisible /\ VisibilityChange)

\* every start and target gain
InitRampSpec ==
    /\ InitReferenceIdle
    /\ InitParticles /\ InitFrame /\ InitRamp /\ InitReverb
    /\ InitEmissionIdle /\ InitLoad /\ InitOther

RampSpec == InitRampSpec /\ [][RampStep]_vars

ReverbSpec == Init /\ [][NextReverb]_vars

\* the reverb with throwing disconnect() calls
ThrowingSpec == Init /\ [][NextThrowing]_vars

NextParticles ==
    \/ Initialize
    \/ \E dt \in DeltaTimes, engineState \in DriveStates : Update(dt, engineState)
    \/ Dispose

ParticleSpec == Init /\ [][NextParticles]_vars

\* the deltaTime of a burst (a frame after a long pause)
BurstDeltas == {BurstDemand * AddTimeAccel, BurstDemand * AddTimeCruise}

\* update with the deltaTime of a burst
UpdateBurst(engineState) == \E dt \in BurstDeltas : Update(dt, engineState)

NextBurst ==
    \/ Initialize
    \/ \E dt \in DeltaTimes : Update(dt, "accel")
    \/ \E engineState \in DriveStates : UpdateBurst(engineState)

\* the particle system with frames of ordinary length while accelerating,
\* and bursts in every drive state
BurstSpec == Init /\ [][NextBurst]_vars

\* the drive state reaches stop and stays there
HoldStop ==
    /\ ~stopHeld
    /\ stopHeld' = TRUE
    /\ UNCHANGED <<stallVars, controlsVars, psVars, frameVars, rampVars, reverbVars,
                   emissionVars, loadVars, referenceVars>>

\* update with deltaTime > 0 in state stop
UpdateStopped == \E dt \in DeltaTimes : Update(dt, "stop")

\* the particle system while accelerating, then with the drive state held
\* at stop
NextStop ==
    \/ ~stopHeld /\ Initialize
    \/ ~stopHeld /\ \E dt \in DeltaTimes : Update(dt, "accel")
    \/ HoldStop
    \/ stopHeld /\ UpdateStopped

\* the frame loop keeps calling update
StopSpec == Init /\ [][NextStop]_vars /\ WF_vars(stopHeld /\ UpdateStopped)

\* the pool on its own
PoolSpec == Init /\ [][NextPool]_vars

\* the preload of the sound buffers
LoadSpec == Init /\ [][NextLoad]_vars

InitReferenceSpec ==
    /\ InitReference
    /\ InitParticles /\ InitFrame /\ InitRampIdle /\ InitReverb
    /\ InitEmissionIdle /\ InitLoad /\ InitOther

\* the particle system at the settings of exhaust.js, accelerating
ReferenceSpec == InitReferenceSpec /\ [][NextReference]_vars

InitEmissionSpec ==
    /\ InitReferenceIdle
    /\ InitParticles /\ InitFrame /\ InitRampIdle /\ InitReverb
    /\ InitEmission /\ InitLoad /\ InitOther

EmissionSpec == InitEmissionSpec /\ [][EmitCall]_vars

\* update calls with any drive state and deltaTime on the emitter that
\* initialize() built
NextAccumulator == \E dt \in DeltaTimes, engineState \in DriveStates : EmitUpdate(dt, engineState)

AccumulatorSpec == Init /\ [][NextAccumulator]_vars

----------------------------------------------------------------------------
\* Claims about the particle pool and the particle system (ParticleSpec)

PoolSize == Len(active) + Len(pool)

NoDuplicates(s) == \A i, j \in 1..Len(s) : s[i] = s[j] => i = j

\* C1: the active list and the free list together hold exactly the records
\* ever constructed, their total never decreases, and no record is in both
\* lists or twice in one.
PoolConservation ==
    /\ [](/\ PoolSize = constructed
          /\ Range(active) \cap Range(pool) = {}
          /\ NoDuplicates(active)
          /\ NoDuplicates(pool)
          /\ Range(active) \cup Range(pool) = 1..Len(particles))
    /\ [][Len(active') + Len(pool') >= PoolSize]_vars

\* C1 witness: both records have been constructed, one has been released to
\* the free list while the other is active.
PoolConservationWitness ==
    /\ constructed = MAX_PARTICLES
    /\ Len(pool) >= 1
    /\ Len(active) >= 1

\* C2: the active count never exceeds MAX_PARTICLES; an update never spawns
\* more than it requested, and the time of every requested spawn, dropped
\* ones included, has left the accumulator (less than one add_time remains).
CapEnforced ==
    /\ Len(active) <= MAX_PARTICLES
    /\ dropped >= 0
    /\ \A k \in 1..Len(emitters) :
         emitters[k].enabled => /\ emitters[k].elapsed >= 0
                                /\ emitters[k].elapsed < emitters[k].add_time

\* C2 witness: an update dropped a spawn and ended with the cap reached.
CapEnforcedWitness ==
    /\ dropped > 0
    /\ Len(active) = MAX_PARTICLES

\* C3 as claimed: for every index k below the active count, slot k of the
\* three buffers holds the data of the k-th particle of the active list.
\* The code writes a survivor to the slot of its index at the time it is
\* visited; a release at a lower index then shifts it in the list.
BuffersMatchActive ==
    \A k \in 1..Len(active) :
        /\ smokePositions[k - 1] = particles[active[k]].offset
        /\ smokeColors[k - 1] = particles[active[k]].alpha
        /\ smokeSizes[k - 1] = particles[active[k]].scale

\* C4 as claimed: after every update the number of slots the renderer draws
\* equals the active count.
DrawCountIsActiveCount ==
    [][(\E dt \in DeltaTimes, engineState \in DriveStates : Update(dt, engineState))
         => drawCount = Len(active')]_vars

----------------------------------------------------------------------------
\* Claims about the drive state (Spec, FairSpec)

Transient == {"accel", "decel"}
Stable == {"drive", "stop"}

\* C5 as claimed: whenever the drive state is accel or decel it eventually
\* becomes drive or stop, under fair frame ticks and for every interleaving
\* of the triggers, an ignition before the wheel models have loaded included.
\* An ignition before the load leaves the time scale untouched; the mixer is
\* then created with time scale 1.0, the accel loop never runs and the state
\* stays accel on every later tick.
RampsAreTransient == (driveState \in Transient) ~> (driveState \in Stable)

FourEdges ==
    {<<"stop", "accel">>, <<"accel", "drive">>, <<"drive", "decel">>, <<"decel", "stop">>}

IgnitionEdges == {<<"accel", "decel">>, <<"decel", "accel">>}

----------------------------------------------------------------------------
\* Claims about the perspective mixer (Spec, RampSpec)

\* C7 as claimed: no call of setEmitterVolumes changes the gain of any of
\* the four emitters by more than 0.2, starting from the gains the emitters
\* are created with.  The mix emitter is created with gain 1.0 and the first
\* call sets it to 0.
VolumeStepBounded ==
    [][\A pos \in Perspectives : Abs(volume'[pos] - volume[pos]) <= VolumeStep]_vars

\* the calls a ramp needs: ceil(|target - start| / 0.2)
RampNeeded == (Abs(rampTarget - rampStart) + VolumeStep - 1) \div VolumeStep

MixSilent == volume["mix"] = 0

----------------------------------------------------------------------------
\* Claims about the convolution reverb (ReverbSpec)

Ids == 1..loadsRequested

\* the dry paths of an emitter: panner -> dry gain -> destination
DryPaths(pos) ==
    {id \in Ids : /\ <<Panner(pos), Node(pos, "dryGain", id)>> \in edges
                  /\ <<Node(pos, "dryGain", id), Destination>> \in edges}

\* the wet paths of an emitter: panner -> convolver -> wet gain -> destination
WetPaths(pos) ==
    {ids \in Ids \X Ids :
        /\ <<Panner(pos), Node(pos, "convolver", ids[1])>> \in edges
        /\ <<Node(pos, "convolver", ids[1]), Node(pos, "wetGain", ids[2])>> \in edges
        /\ <<Node(pos, "wetGain", ids[2]), Destination>> \in edges}

\* C10: after any number of calls of applyConvolutionReverb every emitter
\* has exactly one set of reverb nodes, one dry path and one wet path from
\* its panner to the destination, both through that set; after
\* removeConvolutionReverb no emitter has a set or a path.
ReverbGraphExact ==
    /\ lastReverbCall = "apply" =>
          \A pos \in Perspectives :
              /\ reverbNodes[pos] # Null
              /\ \E id \in Ids :
                    /\ reverbNodes[pos] = [convolver |-> Node(pos, "convolver", id),
                                           wetGain |-> Node(pos, "wetGain", id),
                                           dryGain |-> Node(pos, "dryGain", id)]
                    /\ DryPaths(pos) = {id}
                    /\ WetPaths(pos) = {<<id, id>>}
    /\ lastReverbCall = "remove" =>
          \A pos \in Perspectives :
              /\ reverbNodes[pos] = Null
              /\ DryPaths(pos) = {}
              /\ WetPaths(pos) = {}

\* C10 witness: a second call of applyConvolutionReverb has replaced the
\* nodes of the first, whose inputs are still connected to the panner.
ReverbGraphExactWitness ==
    /\ lastReverbCall = "apply"
    /\ \E id \in Ids :
          /\ reverbNodes["exhaust"] # Null
          /\ reverbNodes["exhaust"].dryGain # Node("exhaust", "dryGain", id)
          /\ <<Panner("exhaust"), Node("exhaust", "dryGain", id)>> \in edges

\* C24: when a disconnect() on a stored reverb node throws during
\* applyConvolutionReverb or removeConvolutionReverb, the call still runs to
\* its end: every emitter's stored reference is cleared, and after
\* applyConvolutionReverb every emitter holds the nodes of that call with
\* their routing built and their parameters set.
ThrowingDisconnectContained ==
    disconnectThrew =>
        /\ lastReverbCall = "remove" =>
              \A pos \in Perspectives : reverbNodes[pos] = Null
        /\ lastReverbCall = "apply" =>
              \A pos \in Perspectives :
                 LET convolver == Node(pos, "convolver", lastApplyId)
                     wetGain == Node(pos, "wetGain", lastApplyId)
                     dryGain == Node(pos, "dryGain", lastApplyId)
                 IN /\ reverbNodes[pos] = [convolver |-> convolver, wetGain |-> wetGain,
                                           dryGain |-> dryGain]
                    /\ {<<Panner(pos), dryGain>>, <<dryGain, Destination>>,
                        <<Panner(pos), convolver>>, <<convolver, wetGain>>,
                        <<wetGain, Destination>>} \subseteq edges
                    /\ {convolver, wetGain, dryGain} \subseteq DOMAIN nodeParam

\* C24 witness: applyConvolutionReverb ran while the first disconnect() for
\* the exhaust emitter threw; the old dry gain is still connected to the
\* destination and the emitter holds the new nodes.
ThrowingDisconnectContainedWitness ==
    /\ disconnectThrew
    /\ lastReverbCall = "apply"
    /\ lastApplyId = 2
    /\ <<Node("exhaust", "dryGain", 1), Destination>> \in edges
    /\ reverbNodes["exhaust"].dryGain = Node("exhaust", "dryGain", 2)

\* C27 as claimed: once no impulse-response load is pending, no emitter
\* holds reverb nodes when the selection is 'None', and with a preset
\* selected the nodes an emitter holds have that preset's impulse response
\* as convolver buffer and wet and dry gains from that preset's blend and
\* scaling factor.
\* A load started by an earlier selection is not cancelled: its .then applies
\* its buffer whenever it resolves, with the blend and scaling factor of the
\* moment, after 'None' was selected or after a later preset was applied.
RoutingMatchesSelection ==
    pendingLoads = {} =>
        \A pos \in Perspectives :
           /\ reverbSelection = "None" => reverbNodes[pos] = Null
           /\ (reverbSelection # "None" /\ reverbNodes[pos] # Null) =>
                 /\ nodeParam[reverbNodes[pos].convolver] = reverbSelection
                 /\ nodeParam[reverbNodes[pos].wetGain] =
                       ReverbMap(reverbSelection).blend
                         * ReverbMap(reverbSelection).scalingFactor
                 /\ nodeParam[reverbNodes[pos].dryGain] =
                       (GainOne - ReverbMap(reverbSelection).blend)
                         * ReverbMap(reverbSelection).scalingFactor

----------------------------------------------------------------------------
\* Claims about bursts (BurstSpec)

\* C11 as claimed: a call of update that demands BurstDemand spawns (10,000
\* in the source) ends with exactly MAX_PARTICLES active particles.
BurstEndsAtCap == burst => Len(active) = MAX_PARTICLES

\* C11 amended: a call of update that demands BurstDemand spawns never
\* spawns more than MAX_PARTICLES of them and drops the rest, and leaves
\* MAX_PARTICLES records constructed; the deltaTime that produces such a
\* demand exceeds every lifetime, so the same call releases all of them and
\* ends with no active particle and every record in the free list.
BurstSpawnsToCap ==
    burst => /\ dropped >= BurstDemand - MAX_PARTICLES
             /\ constructed = MAX_PARTICLES
             /\ Len(active) = 0
             /\ Len(pool) = MAX_PARTICLES

\* C11 witness: a burst has run on an empty active list: all but
\* MAX_PARTICLES of its spawns were dropped and nothing is active.
BurstSpawnsToCapWitness ==
    /\ burst
    /\ dropped = BurstDemand - MAX_PARTICLES
    /\ Len(active) = 0
    /\ Len(pool) = MAX_PARTICLES


----------------------------------------------------------------------------
\* Claims about the spawn accumulator (EmissionSpec)

\* C12: with a constant deltaTime d and a constant add_time a, the emitter
\* enabled on every call, the number of spawns requested over N calls
\* differs from floor(N * d / a) by at most one, whether or not a divides d.
EmissionTracksTime ==
    Abs(emitSpawns - (emitCalls * emitDelta) \div emitEmitter.add_time) <= 1

\* C12 witness: d / a = 16 / 20 over 1000 calls has requested 800 spawns.
EmissionTracksTimeWitness ==
    /\ emitDelta = 4
    /\ emitEmitter.add_time = 5
    /\ emitCalls = 1000
    /\ emitSpawns = 800


----------------------------------------------------------------------------
\* Claims about the particles an update leaves (ParticleSpec)

\* C13: every active particle has a lifetime above 0 and an alpha above 0,
\* and every record whose lifetime or alpha is at or below 0 is in the free
\* list and not in the active list, also when it was spawned in the call
\* that expired it.
ActiveAreAlive ==
    /\ \A k \in 1..Len(active) :
          /\ particles[active[k]].live > 0
          /\ particles[active[k]].alpha > 0
    /\ \A id \in 1..Len(particles) :
          (particles[id].live <= 0 \/ particles[id].alpha <= 0)
              => /\ id \in Range(pool)
                 /\ id \notin Range(active)

\* C13 witness: a record spawned and expired by one call (it was advanced
\* exactly once) is in the free list while another particle is active.
ActiveAreAliveWitness ==
    /\ Len(active) >= 1
    /\ \E id \in Range(pool) :
          /\ particles[id].scale = ScaleFrom + ScaleIncrease
          /\ particles[id].live <= 0


\* C14: every record an update spawns, a reused one included, leaves the
\* spawn loop with every field holding the value the emitter's current
\* settings and the draws of that spawn give it; nothing the record held
\* before survives.
SpawnOverwritesAllFields == spawnedFresh

\* C14 witness: the last update spawned a record taken from the free list,
\* which had been advanced in its earlier life, and it is still active.
SpawnOverwritesAllFieldsWitness ==
    /\ spawnedFresh
    /\ spawnedReused
    /\ Len(active) >= 1
    /\ \E id \in Range(active) : particles[id].scale = ScaleFrom + ScaleIncrease


\* C15: every particle that is active before and after an update has had
\* its lifetime lowered by exactly the deltaTime of that update.
LifetimeDropsByDelta == agedByDelta

\* C15 witness: a particle spawned by an earlier update has survived a
\* second one (it was advanced twice) and is active.
LifetimeDropsByDeltaWitness ==
    /\ agedByDelta
    /\ \E id \in Range(active) :
          /\ particles[id].scale = ScaleFrom + 2 * ScaleIncrease
          /\ particles[id].live > 0

\* C19: an update constructs a record only for a spawn the free list cannot
\* serve, and the number of records ever constructed never exceeds
\* MAX_PARTICLES.
RecordsBuiltOnlyWhenFreeListEmpty ==
    /\ builtLazily
    /\ constructed <= MAX_PARTICLES
    /\ Len(particles) = constructed

\* C19 witness: MAX_PARTICLES records exist and the last update served a
\* spawn from the free list without constructing one.
RecordsBuiltOnlyWhenFreeListEmptyWitness ==
    /\ builtLazily
    /\ spawnedReused
    /\ constructed = MAX_PARTICLES
    /\ Len(active) >= 1

\* C21: an update with drive state stop acquires no particle and leaves
\* the emitter's elapsed, add_time and speed range as they were, while it
\* advances every active particle and releases the expired ones.
StopOnlyAdvances ==
    [][(stopHeld /\ stopHeld') =>
         /\ constructed' = constructed
         /\ Range(active') \subseteq Range(active)
         /\ \A k \in 1..Len(emitters) :
               /\ emitters'[k].elapsed = emitters[k].elapsed
               /\ emitters'[k].add_time = emitters[k].add_time
               /\ emitters'[k].speed_from = emitters[k].speed_from
               /\ emitters'[k].speed_to = emitters[k].speed_to
         /\ \E dt \in DeltaTimes :
               \A id \in Range(active) :
                  LET p == particles[id]
                      q == particles'[id]
                  IN /\ q.live = p.live - dt
                     /\ q.offset = p.offset + p.quaternion
                     /\ q.scale = p.scale + p.scale_increase
                     /\ q.alpha = p.alpha - p.opacity_decrease
                     /\ IF q.live <= 0 \/ q.alpha <= 0
                        THEN id \in Range(pool') /\ id \notin Range(active')
                        ELSE id \in Range(active')]_vars

\* C21 witness: updates in state stop have disabled the emitter and spawned
\* nothing; a particle they advanced is active and one they expired is in
\* the free list.
StopOnlyAdvancesWitness ==
    /\ stopHeld
    /\ Len(emitters) = 1
    /\ ~emitters[1].enabled
    /\ lastSpawned = 0
    /\ \E id \in Range(active) : particles[id].scale = ScaleFrom + 2 * ScaleIncrease
    /\ \E id \in Range(pool) : particles[id].live <= 0

\* C22: after every update call in which the emitter is enabled its elapsed
\* accumulator is in [0, add_time) for the add_time of that call, also when
\* add_time changed since the call before and after calls in state stop.
ElapsedBelowAddTime ==
    emitEmitter.enabled =>
        /\ 0 <= emitEmitter.elapsed
        /\ emitEmitter.elapsed < emitEmitter.add_time

\* C22 witness: a call in state accel (add_time 0.01) found the emitter
\* stopped with add_time 0.02 and half of it accumulated.
ElapsedBelowAddTimeWitness ==
    /\ emitCalls >= 3
    /\ ~emitPrev.enabled
    /\ emitPrev.add_time = AddTimeCruise
    /\ emitPrev.elapsed = 1
    /\ emitEmitter.enabled
    /\ emitEmitter.add_time = AddTimeAccel
    /\ emitEmitter.elapsed < emitEmitter.add_time

\* C29: if the drive state stays stop and update keeps being called with a
\* deltaTime > 0 while the particle system is enabled and visible, the
\* active particle count eventually reaches 0 and stays 0.
StopDrainsParticles ==
    /\ stopHeld ~> (Len(active) = 0)
    /\ [][(stopHeld /\ Len(active) = 0) => Len(active') = 0]_vars

\* C29 witness: particles spawned while accelerating have all been released
\* by updates in state stop.
StopDrainsParticlesWitness ==
    /\ stopHeld
    /\ psEnabled /\ psVisible
    /\ Len(emitters) = 1
    /\ ~emitters[1].enabled
    /\ Len(active) = 0
    /\ Len(pool) = MAX_PARTICLES

----------------------------------------------------------------------------
\* Claims about the pool on its own (PoolSpec)

\* C18: a release of a record that is not in the active list (one already
\* in the free list, or an object the pool never handed out) leaves both
\* lists as they were, and no record is ever twice in a list or in both.
ReleaseOfInactiveIsNoOp ==
    /\ [][lastRelease' \in {"free", "foreign"} => UNCHANGED <<pool, active>>]_vars
    /\ [](/\ NoDuplicates(pool)
          /\ NoDuplicates(active)
          /\ Range(pool) \cap Range(active) = {})

\* C18 witness: a record already in the free list has been released a
\* second time, while another record is active.
ReleaseOfInactiveIsNoOpWitness ==
    /\ lastRelease = "free"
    /\ Len(pool) >= 1
    /\ Len(active) >= 1


----------------------------------------------------------------------------
\* Claims about the preload of the sound buffers (LoadSpec)

\* C16 as claimed: once the preload has settled with a buffer load failed,
\* the non-blocking warning overlay has been shown.
\* The promise load() pushes for each file has its own .catch, which only
\* logs; Promise.all therefore never rejects and its .catch, the one that
\* calls showErrorUI, never runs.
LoadFailureShowsWarning ==
    (audioLoaded /\ \E file \in AudioFiles : audioLoad[file] = "rejected")
        => errorOverlay = "warning"


\* C25: whatever subset of the buffer loads fails, audioLoaded is set only
\* when every load has settled, and then every buffer whose load succeeded is
\* in the cache under its perspective and key, every failed load has left
\* its entry null, and no error has been raised.
SettledLoadsAreCached ==
    /\ \A file \in AudioFiles :
          /\ audioLoad[file] = "resolved" => buffers[file] = "buffer"
          /\ audioLoad[file] # "resolved" => buffers[file] = "null"
    /\ audioLoaded =>
          /\ \A file \in AudioFiles : audioLoad[file] # "pending"
          /\ errorOverlay # "warning"
    /\ ((\A file \in AudioFiles : audioLoad[file] # "pending") /\ ~audioLoaded)
          => ENABLED AudioAllSettled

\* C25 witness: the preload is over with one load failed and another
\* succeeded.
SettledLoadsAreCachedWitness ==
    /\ audioLoaded
    /\ audioLoad[<<"intake", "idle">>] = "rejected"
    /\ buffers[<<"intake", "idle">>] = "null"
    /\ audioLoad[<<"exhaust", "idle">>] = "resolved"
    /\ buffers[<<"exhaust", "idle">>] = "buffer"

\* C26: in every order of completion of the model loading and the audio
\* loading, sceneReady is never true while modelsLoaded or audioLoaded is
\* false, it is true once the later of the two has completed, it is set at
\* most once and it is never reset.
SceneReadyOnceBothLoaded ==
    /\ [](sceneReady => (initModelsLoaded /\ audioLoaded))
    /\ []((initModelsLoaded /\ audioLoaded /\ modelsInit = "checked") => sceneReady)
    /\ [](sceneReadySets <= 1)
    /\ [][sceneReady => sceneReady']_vars
    /\ [][(~sceneReady /\ sceneReady') =>
            \/ (~audioLoaded /\ audioLoaded' /\ initModelsLoaded)
            \/ (modelsInit = "returned" /\ modelsInit' = "checked" /\ audioLoaded)]_vars

\* C26 witness: the models are set up, the audio loading has settled with a
\* failed load and the .then of initializeModels() has run; sceneReady was
\* set once.
SceneReadyOnceBothLoadedWitness ==
    /\ sceneReady
    /\ sceneReadySets = 1
    /\ modelsInit = "checked"
    /\ \E file \in AudioFiles : audioLoad[file] = "rejected"

----------------------------------------------------------------------------
\* Claims about the wheel ramp of the frame loop (Spec)

\* C20 as claimed: a visible frame in state accel with the wheel mixer
\* built raises the time scale by the deltaTime of that frame only, and the
\* state becomes drive only in the frame that brings it to 1.0; likewise a
\* frame in state decel lowers it by one deltaTime and the state becomes
\* stop only in the frame that brings it to 0.
\* The ramps of tick are while loops: one frame adds deltaTime until the
\* time scale is 1.0 (or subtracts it until 0), so the ramp is over in one
\* frame.
RampOneStepPerFrame ==
    [][(isPageVisible /\ modelsLoaded /\ frameParity' # frameParity) =>
         /\ (driveState = "accel" /\ timeScale < GainOne) =>
               \E dt \in DeltaTimes :
                  /\ timeScale' = Min(GainOne, timeScale + dt)
                  /\ driveState' = IF timeScale + dt >= GainOne
                                   THEN "drive" ELSE "accel"
         /\ (driveState = "decel" /\ timeScale > 0) =>
               \E dt \in DeltaTimes :
                  /\ timeScale' = Max(0, timeScale - dt)
                  /\ driveState' = IF timeScale - dt <= 0
                                   THEN "stop" ELSE "decel"]_vars


\* C23: for every solo selection s and every perspective p of intake,
\* exhaust and interior, the gain a frame steps p toward is
\* clamp01(base * multiplier(p)) with base 1.0 if p = s, the mix baseline if
\* s = mix and 0 otherwise; so with one perspective soloed the other two are
\* stepped toward gain 0.
SoloTargetIsScaledBase ==
    [][(isPageVisible /\ frameParity' # frameParity) =>
         \A p \in IndividualEmitters :
            LET base == IF p = soloState THEN GainOne
                        ELSE IF soloState = "mix" THEN MultMix ELSE 0
                mult == CASE p = "intake" -> MultIntake
                          [] p = "exhaust" -> MultExhaust
                          [] p = "interior" -> MultInterior
                prod == (base * mult) \div GainOne
                target == IF prod < 0 THEN 0 ELSE IF prod > GainOne THEN GainOne ELSE prod
            IN /\ volume[p] < target => volume'[p] = Min(target, volume[p] + VolumeStep)
               /\ volume[p] > target => volume'[p] = Max(target, volume[p] - VolumeStep)
               /\ volume[p] = target => volume'[p] = target
               /\ (soloState # "mix" /\ p # soloState) =>
                     volume'[p] = Max(0, volume[p] - VolumeStep)]_vars

\* C23 witness: intake is soloed and the frames have brought intake to its
\* multiplier and the other two perspectives to 0.
SoloTargetIsScaledBaseWitness ==
    /\ soloState = "intake"
    /\ volume["intake"] = MultIntake
    /\ volume["exhaust"] = 0
    /\ volume["interior"] = 0

\* C28 as claimed: every frame tick terminates, for every deltaTime >= 0
\* (0 included) and every wheel time scale.
\* With deltaTime 0 the body of 'while (timeScale < 1.0)' adds 0, its inner
\* test stays false and the loop condition stays true; likewise the decel
\* loop.
TickTerminates == ~tickSpinning

\* C30 as claimed: every click on the headlights button produces exactly one
\* invocation of the headlights callback, so that once no beam animation is
\* running the invocations are as many as the clicks, and the beam
\* indicators and the last value reported both equal headlightsOn.
\* animateBeams returns at once while beamsAnimating is set: a click during
\* an animation toggles headlightsOn but starts nothing, the running
\* animation ends with the beams of the earlier click, and one callback is
\* made for the two clicks.
HeadlightsCallbackPerClick ==
    (panelCreated /\ ~beamsAnimating) =>
        /\ headlightCalls = headlightClicks
        /\ \A idx \in 1..3 : beams[idx] = headlightsOn
        /\ lastReported = OnOff(headlightsOn)

----------------------------------------------------------------------------
\* Claims about the particle system at the settings of exhaust.js
\* (ReferenceSpec)

\* C17: with the drive state held at accel, deltaTime 0.02 and the settings
\* of exhaust.js, every update spawns exactly 2 particles and drops none,
\* and from the 50th call on the active count is between 50 and 150, below
\* MAX_PARTICLES, whatever lifetimes the particles draw.
AccelCountStabilises ==
    /\ updateCalls >= 1 => (lastSpawned = 2 /\ dropped = 0)
    /\ updateCalls >= 50 => /\ Len(active) >= 50
                            /\ Len(active) <= 150
                            /\ Len(active) < MAX_PARTICLES

\* C17 witness: after 100 calls, with particles of both lifetimes, the
\* count is strictly between the counts of the two pure populations.
AccelCountStabilisesWitness ==
    /\ updateCalls = 100
    /\ lastSpawned = 2
    /\ Len(active) > 98
    /\ Len(active) < 148

====
